---- MODULE Spec2Model ----
(***************************************************************************)
(* Model of the redaction layer (src/src/redaction.py, class Redactor) and *)
(* of the configuration-string parsers (src/src/utils.py) of the Proxmox   *)
(* documentation generator, with their callers: the generators of a run    *)
(* (src/generate_docs.py, src/src/generators/base.py), callers that share  *)
(* a Redactor, and VMNetworkGenerator.collect_data (generators/vm.py).     *)
(*                                                                         *)
(* Python strings are sequences of one-character strings, so that split,   *)
(* startswith and f-string formatting are computed character by character. *)
(* Python dicts are sequences of <<key, value>> pairs with unique keys, in *)
(* insertion order.  None is a value of its own.                           *)
(***************************************************************************)
EXTENDS Integers, Sequences, FiniteSets, TLC

VARIABLES config, username_map, username_counter, op, arg, input, ret, raised,
          issued, generators, callers

vars == <<config, username_map, username_counter, op, arg, input, ret, raised,
          issued, generators, callers>>

(***************************************************************************)
(* Bounds of the model.                                                    *)
(***************************************************************************)
MaxCounter == 2
MaxSegs == 4
MaxGenerators == 2
MaxCallers == 2

(***************************************************************************)
(* Python values.                                                          *)
(***************************************************************************)
None == <<"None">>
NoneRecord == << <<"None">> >>
NoValue == <<"NoValue">>
NoException == ""
AttributeError == "AttributeError"

Ok(v) == [val |-> v, exc |-> NoException]
Raise(e) == [val |-> NoValue, exc |-> e]

\* `not v` for an Optional[str]: None and '' are falsy
Falsy(v) == v = None \/ v = <<>>

\* `not d` for an Optional[dict]: None and {} are falsy
FalsyRecord(d) == d = NoneRecord \/ d = <<>>

(***************************************************************************)
(* String operations.                                                      *)
(***************************************************************************)
\* s.startswith(prefix)
StartsWith(s, prefix) ==
    /\ Len(s) >= Len(prefix)
    /\ SubSeq(s, 1, Len(prefix)) = prefix

\* sep in s
Contains(s, sep) == \E i \in 1..Len(s) : s[i] = sep

\* s.split(sep) for a one-character separator: always at least one part
RECURSIVE Split(_, _)
Split(s, sep) ==
    IF ~Contains(s, sep) THEN <<s>>
    ELSE LET i == CHOOSE j \in 1..Len(s) :
                      s[j] = sep /\ \A k \in 1..(j - 1) : s[k] # sep
         IN <<SubSeq(s, 1, i - 1)>> \o Split(SubSeq(s, i + 1, Len(s)), sep)

\* variant: the split is made at the last separator, as rsplit does
SplitOnce_Last(s, sep) ==
    LET i == CHOOSE j \in 1..Len(s) :
                 s[j] = sep /\ \A k \in (j + 1)..Len(s) : s[k] # sep
    IN <<SubSeq(s, 1, i - 1), SubSeq(s, i + 1, Len(s))>>

\* s.split(sep, 1) for a one-character separator that occurs in s
SplitOnce(s, sep) ==
    LET i == CHOOSE j \in 1..Len(s) :
                 s[j] = sep /\ \A k \in 1..(j - 1) : s[k] # sep
    IN <<SubSeq(s, 1, i - 1), SubSeq(s, i + 1, Len(s))>>

Digit(d) == <<"0", "1", "2", "3", "4", "5", "6", "7", "8", "9">>[d + 1]

\* str(n) as done by the f-string, n >= 0
RECURSIVE IntToStr(_)
IntToStr(n) ==
    IF n < 10 THEN <<Digit(n)>>
    ELSE IntToStr(n \div 10) \o <<Digit(n % 10)>>

(***************************************************************************)
(* Dict operations.                                                        *)
(***************************************************************************)
DictKeys(d) == {d[i][1] : i \in 1..Len(d)}

\* key in d
DictHas(d, key) == key \in DictKeys(d)

\* d[key], for a key of d
DictGet(d, key) == d[CHOOSE i \in 1..Len(d) : d[i][1] = key][2]

\* d[key] = value: an existing key keeps its position, a new key is appended
DictSet(d, key, value) ==
    IF DictHas(d, key)
    THEN [i \in 1..Len(d) |-> IF d[i][1] = key THEN <<key, value>> ELSE d[i]]
    ELSE Append(d, <<key, value>>)

(***************************************************************************)
(* The redaction policy: the redact_* attributes read from self.config.    *)
(***************************************************************************)
Flags == {"redact_mac_addresses", "redact_hardware_serials",
          "redact_api_tokens", "redact_cpu_flags", "redact_usernames",
          "redact_email_addresses"}

\* a policy that defines every flag
Policies == [Flags -> BOOLEAN]

\* the ProxmoxConfig object as src/src/config.py builds it: no redact_* attribute
ProxmoxConfig == <<>>

Configs == Policies \cup {ProxmoxConfig}

HasFlag(cfg, f) == f \in DOMAIN cfg

MAC_REDACTED == <<"X", "X", ":", "X", "X", ":", "X", "X", ":",
                  "X", "X", ":", "X", "X", ":", "X", "X">>
REDACTED == <<"R", "E", "D", "A", "C", "T", "E", "D">>
CPU_REDACTED == <<"A", "v", "a", "i", "l", "a", "b", "l", "e", " ",
                  "(", "d", "e", "t", "a", "i", "l", "s", " ",
                  "r", "e", "d", "a", "c", "t", "e", "d", " ",
                  "f", "o", "r", " ", "p", "u", "b", "l", "i", "c", " ",
                  "d", "o", "c", "u", "m", "e", "n", "t", "a", "t", "i", "o", "n", ")">>

(***************************************************************************)
(* The stateless per-field rules.  Each yields [val, exc].                 *)
(***************************************************************************)
\* variant: the replacement is a tag put in front of the value
FlagRule_Tagging(cfg, flag, value, replacement) ==
    IF Falsy(value) THEN Ok(value)
    ELSE IF ~HasFlag(cfg, flag) THEN Raise(AttributeError)
    ELSE IF ~cfg[flag] THEN Ok(value)
    ELSE Ok(replacement \o <<":">> \o value)

\* variant: the flag is read but not tested
FlagRule_IgnoreFlag(cfg, flag, value, replacement) ==
    IF Falsy(value) THEN Ok(value)
    ELSE IF ~HasFlag(cfg, flag) THEN Raise(AttributeError)
    ELSE Ok(replacement)

\* if not value or not self.config.<flag>: return value; return <replacement>
FlagRule(cfg, flag, value, replacement) ==
    IF Falsy(value) THEN Ok(value)
    ELSE IF ~HasFlag(cfg, flag) THEN Raise(AttributeError)
    ELSE IF ~cfg[flag] THEN Ok(value)
    ELSE Ok(replacement)

redact_mac_address(cfg, mac) ==
    FlagRule(cfg, "redact_mac_addresses", mac, MAC_REDACTED)

redact_serial(cfg, serial) ==
    FlagRule(cfg, "redact_hardware_serials", serial, REDACTED)

\* variant: the WWN rule follows the MAC flag
redact_wwn_MacFlag(cfg, wwn) ==
    FlagRule(cfg, "redact_mac_addresses", wwn, REDACTED)

redact_wwn(cfg, wwn) ==
    FlagRule(cfg, "redact_hardware_serials", wwn, REDACTED)

redact_cpu_flags(cfg, flags) ==
    FlagRule(cfg, "redact_cpu_flags", flags, CPU_REDACTED)

\* variant: the email rule reads the username flag
redact_email_UsernameFlag(cfg, email) ==
    FlagRule(cfg, "redact_usernames", email, REDACTED)

redact_email(cfg, email) ==
    FlagRule(cfg, "redact_email_addresses", email, REDACTED)

redact_token_id(cfg, token_id) ==
    FlagRule(cfg, "redact_api_tokens", token_id, REDACTED)

(***************************************************************************)
(* The username rule, the one stateful rule.  Yields [val, exc, map,       *)
(* counter]: the return value and the pseudonym state after the call.      *)
(***************************************************************************)
\* variant: only 'root@pam' is exempt
ROOT_PREFIX_PamOnly == <<"r", "o", "o", "t", "@", "p", "a", "m">>

ROOT_PREFIX == <<"r", "o", "o", "t", "@">>
USER == <<"u", "s", "e", "r">>
PAM == <<"p", "a", "m">>

\* parts = username.split('@'); realm = parts[1] if len(parts) > 1 else 'pam'
Realm(username) ==
    LET parts == Split(username, "@")
    IN IF Len(parts) > 1 THEN parts[2] ELSE PAM

\* variant: the counter is left out of the pseudonym
Pseudonym_NoCounter(counter, realm) == USER \o <<"@">> \o realm

\* f"user{counter}@{realm}"
Pseudonym(counter, realm) == USER \o IntToStr(counter) \o <<"@">> \o realm

\* variant: the map is never consulted
InMap_Never(map, username) == FALSE

\* if username in self._username_map
InMap(map, username) == username \in DOMAIN map

\* variant: the counter advances by two
NextCounter_Skip(counter) == counter + 2

\* self._username_counter += 1
NextCounter(counter) == counter + 1

UserResult(v, e, map, counter) ==
    [val |-> v, exc |-> e, map |-> map, counter |-> counter]

\* variant: the flag is read but not obeyed
redact_username_FlagBlind(cfg, map, counter, username) ==
    IF Falsy(username) THEN UserResult(username, NoException, map, counter)
    ELSE IF ~HasFlag(cfg, "redact_usernames")
    THEN UserResult(NoValue, AttributeError, map, counter)
    ELSE IF StartsWith(username, ROOT_PREFIX)
    THEN UserResult(username, NoException, map, counter)
    ELSE IF InMap(map, username)
    THEN UserResult(map[username], NoException, map, counter)
    ELSE LET n == NextCounter(counter)
             redacted == Pseudonym(n, Realm(username))
         IN UserResult(redacted, NoException,
                       [u \in DOMAIN map \cup {username} |->
                           IF u = username THEN redacted ELSE map[u]],
                       n)

\* variant: a lookup that hits the map advances the counter as well
redact_username_CountsHits(cfg, map, counter, username) ==
    IF Falsy(username) THEN UserResult(username, NoException, map, counter)
    ELSE IF ~HasFlag(cfg, "redact_usernames")
    THEN UserResult(NoValue, AttributeError, map, counter)
    ELSE IF ~cfg["redact_usernames"]
    THEN UserResult(username, NoException, map, counter)
    ELSE IF StartsWith(username, ROOT_PREFIX)
    THEN UserResult(username, NoException, map, counter)
    ELSE IF InMap(map, username)
    THEN UserResult(map[username], NoException, map, NextCounter(counter))
    ELSE LET n == NextCounter(counter)
             redacted == Pseudonym(n, Realm(username))
         IN UserResult(redacted, NoException,
                       [u \in DOMAIN map \cup {username} |->
                           IF u = username THEN redacted ELSE map[u]],
                       n)

\* variant: the new pseudonym is returned but not stored
redact_username_NoStore(cfg, map, counter, username) ==
    IF Falsy(username) THEN UserResult(username, NoException, map, counter)
    ELSE IF ~HasFlag(cfg, "redact_usernames")
    THEN UserResult(NoValue, AttributeError, map, counter)
    ELSE IF ~cfg["redact_usernames"]
    THEN UserResult(username, NoException, map, counter)
    ELSE IF StartsWith(username, ROOT_PREFIX)
    THEN UserResult(username, NoException, map, counter)
    ELSE IF InMap(map, username)
    THEN UserResult(map[username], NoException, map, counter)
    ELSE LET n == NextCounter(counter)
         IN UserResult(Pseudonym(n, Realm(username)), NoException, map, n)

\* variant: a root@ username is stored in the map, mapped to itself
redact_username_MapsRoot(cfg, map, counter, username) ==
    IF Falsy(username) THEN UserResult(username, NoException, map, counter)
    ELSE IF ~HasFlag(cfg, "redact_usernames")
    THEN UserResult(NoValue, AttributeError, map, counter)
    ELSE IF ~cfg["redact_usernames"]
    THEN UserResult(username, NoException, map, counter)
    ELSE IF StartsWith(username, ROOT_PREFIX)
    THEN UserResult(username, NoException,
                    [u \in DOMAIN map \cup {username} |->
                        IF u = username THEN username ELSE map[u]],
                    counter)
    ELSE IF InMap(map, username)
    THEN UserResult(map[username], NoException, map, counter)
    ELSE LET n == NextCounter(counter)
             redacted == Pseudonym(n, Realm(username))
         IN UserResult(redacted, NoException,
                       [u \in DOMAIN map \cup {username} |->
                           IF u = username THEN redacted ELSE map[u]],
                       n)

redact_username(cfg, map, counter, username) ==
    IF Falsy(username) THEN UserResult(username, NoException, map, counter)
    ELSE IF ~HasFlag(cfg, "redact_usernames")
    THEN UserResult(NoValue, AttributeError, map, counter)
    ELSE IF ~cfg["redact_usernames"]
    THEN UserResult(username, NoException, map, counter)
    ELSE IF StartsWith(username, ROOT_PREFIX)
    THEN UserResult(username, NoException, map, counter)
    ELSE IF InMap(map, username)
    THEN UserResult(map[username], NoException, map, counter)
    ELSE LET n == NextCounter(counter)
             redacted == Pseudonym(n, Realm(username))
         IN UserResult(redacted, NoException,
                       [u \in DOMAIN map \cup {username} |->
                           IF u = username THEN redacted ELSE map[u]],
                       n)

(***************************************************************************)
(* The composite record operations.  Each yields [val, exc, input, map,    *)
(* counter]: input is the caller's record as the call leaves it.           *)
(***************************************************************************)
K_hwaddr == <<"h", "w", "a", "d", "d", "r">>
K_mac == <<"m", "a", "c">>
K_macaddr == <<"m", "a", "c", "a", "d", "d", "r">>
K_hardware_address == <<"h", "a", "r", "d", "w", "a", "r", "e", "-",
                        "a", "d", "d", "r", "e", "s", "s">>
K_serial == <<"s", "e", "r", "i", "a", "l">>
K_wwn == <<"w", "w", "n">>
K_email == <<"e", "m", "a", "i", "l">>
K_userid == <<"u", "s", "e", "r", "i", "d">>
K_tokenid == <<"t", "o", "k", "e", "n", "i", "d">>
K_user == <<"u", "s", "e", "r">>

\* variant: 'macaddr' is missing from the list
MAC_KEYS_NoMacaddr == <<K_hwaddr, K_mac, K_hardware_address>>

\* variant: 'hardware-address' is missing from the list
MAC_KEYS_Short == <<K_hwaddr, K_mac, K_macaddr>>

\* the key list of the loop in redact_network_interface
MAC_KEYS == <<K_hwaddr, K_mac, K_macaddr, K_hardware_address>>

\* variant: redacted = record, so the writes reach the caller's record
CallerRecord_Aliased(record, redacted) == redacted

\* redacted = record.copy(): the writes that follow go to the copy, so the
\* caller's record is afterwards what it was, whatever redacted has become
CallerRecord(record, redacted) == record

RecordResult(v, e, inp, map, counter) ==
    [val |-> v, exc |-> e, input |-> inp, map |-> map, counter |-> counter]

\* if key in redacted: redacted[key] = rule(redacted[key]), for a stateless
\* rule; st is [val |-> redacted, exc |-> ...] and an exception ends the call
RedactKey(st, key, r) ==
    IF st.exc # NoException \/ ~DictHas(st.val, key) THEN st
    ELSE IF r.exc # NoException THEN Raise(r.exc)
    ELSE Ok(DictSet(st.val, key, r.val))

\* for key in [...]: if key in redacted: redacted[key] = redact_mac_address(...)
RECURSIVE RedactMacKeys(_, _, _)
RedactMacKeys(cfg, st, keys) ==
    IF keys = <<>> THEN st
    ELSE LET key == Head(keys)
             r == IF st.exc = NoException /\ DictHas(st.val, key)
                  THEN redact_mac_address(cfg, DictGet(st.val, key))
                  ELSE Ok(NoValue)
         IN RedactMacKeys(cfg, RedactKey(st, key, r), Tail(keys))

redact_network_interface(cfg, map, counter, interface) ==
    IF FalsyRecord(interface)
    THEN RecordResult(interface, NoException, interface, map, counter)
    ELSE LET redacted == RedactMacKeys(cfg, Ok(interface), MAC_KEYS)
         IN RecordResult(redacted.val, redacted.exc,
                         CallerRecord(interface, redacted.val), map, counter)

\* variant: 'serial' is set whether the record holds it or not
redact_disk_info_AddsSerial(cfg, map, counter, disk) ==
    IF FalsyRecord(disk)
    THEN RecordResult(disk, NoException, disk, map, counter)
    ELSE LET r1 == redact_serial(cfg, IF DictHas(disk, K_serial)
                                      THEN DictGet(disk, K_serial)
                                      ELSE None)
             s1 == IF r1.exc # NoException THEN Raise(r1.exc)
                   ELSE Ok(DictSet(disk, K_serial, r1.val))
             s2 == RedactKey(s1, K_wwn,
                       IF s1.exc = NoException /\ DictHas(s1.val, K_wwn)
                       THEN redact_wwn(cfg, DictGet(s1.val, K_wwn))
                       ELSE Ok(NoValue))
         IN RecordResult(s2.val, s2.exc, CallerRecord(disk, s2.val), map, counter)

redact_disk_info(cfg, map, counter, disk) ==
    IF FalsyRecord(disk)
    THEN RecordResult(disk, NoException, disk, map, counter)
    ELSE LET s1 == RedactKey(Ok(disk), K_serial,
                       IF DictHas(disk, K_serial)
                       THEN redact_serial(cfg, DictGet(disk, K_serial))
                       ELSE Ok(NoValue))
             s2 == RedactKey(s1, K_wwn,
                       IF s1.exc = NoException /\ DictHas(s1.val, K_wwn)
                       THEN redact_wwn(cfg, DictGet(s1.val, K_wwn))
                       ELSE Ok(NoValue))
         IN RecordResult(s2.val, s2.exc, CallerRecord(disk, s2.val), map, counter)

\* the second half of redact_user_info / redact_token_info:
\* if key in redacted: redacted[key] = self.redact_username(redacted[key])
RedactUserKey(cfg, map, counter, record, st, key) ==
    IF st.exc # NoException \/ ~DictHas(st.val, key)
    THEN RecordResult(st.val, st.exc, CallerRecord(record, st.val), map, counter)
    ELSE LET r == redact_username(cfg, map, counter, DictGet(st.val, key))
             redacted == IF r.exc # NoException THEN NoValue
                         ELSE DictSet(st.val, key, r.val)
         IN RecordResult(redacted, r.exc, CallerRecord(record, redacted),
                         r.map, r.counter)

\* variant: nothing is redacted unless the email flag is on
redact_user_info_Coupled(cfg, map, counter, user) ==
    IF FalsyRecord(user) \/ (HasFlag(cfg, "redact_email_addresses")
                                 /\ ~cfg["redact_email_addresses"])
    THEN RecordResult(user, NoException, user, map, counter)
    ELSE LET s1 == RedactKey(Ok(user), K_email,
                       IF DictHas(user, K_email)
                       THEN redact_email(cfg, DictGet(user, K_email))
                       ELSE Ok(NoValue))
         IN RedactUserKey(cfg, map, counter, user, s1, K_userid)

redact_user_info(cfg, map, counter, user) ==
    IF FalsyRecord(user)
    THEN RecordResult(user, NoException, user, map, counter)
    ELSE LET s1 == RedactKey(Ok(user), K_email,
                       IF DictHas(user, K_email)
                       THEN redact_email(cfg, DictGet(user, K_email))
                       ELSE Ok(NoValue))
         IN RedactUserKey(cfg, map, counter, user, s1, K_userid)

redact_token_info(cfg, map, counter, token) ==
    IF FalsyRecord(token)
    THEN RecordResult(token, NoException, token, map, counter)
    ELSE LET s1 == RedactKey(Ok(token), K_tokenid,
                       IF DictHas(token, K_tokenid)
                       THEN redact_token_id(cfg, DictGet(token, K_tokenid))
                       ELSE Ok(NoValue))
         IN RedactUserKey(cfg, map, counter, token, s1, K_user)

(***************************************************************************)
(* Introspection.                                                          *)
(***************************************************************************)
\* variant: the email flag is not consulted
ANY_ORDER_NoEmail == <<"redact_mac_addresses", "redact_hardware_serials",
                       "redact_api_tokens", "redact_cpu_flags",
                       "redact_usernames", "redact_usernames">>

\* the order in which should_redact_anything builds its list
ANY_ORDER == <<"redact_mac_addresses", "redact_hardware_serials",
               "redact_api_tokens", "redact_cpu_flags", "redact_usernames",
               "redact_email_addresses">>

\* any([...]): the list is built first, so every flag is read
should_redact_anything(cfg) ==
    IF \E i \in 1..Len(ANY_ORDER) : ~HasFlag(cfg, ANY_ORDER[i])
    THEN Raise(AttributeError)
    ELSE Ok(\E i \in 1..Len(ANY_ORDER) : cfg[ANY_ORDER[i]])

\* variant: the names in the order of the per-field rule table
SUMMARY_ORDER_Table ==
    << <<"redact_mac_addresses", "MAC addresses">>,
       <<"redact_hardware_serials", "Hardware serial numbers and WWN">>,
       <<"redact_cpu_flags", "CPU flags and capabilities">>,
       <<"redact_email_addresses", "Email addresses">>,
       <<"redact_api_tokens", "API token IDs">>,
       <<"redact_usernames", "Usernames (except root)">> >>

\* flag and display name, in the order of the if statements
SUMMARY_ORDER ==
    << <<"redact_mac_addresses", "MAC addresses">>,
       <<"redact_hardware_serials", "Hardware serial numbers and WWN">>,
       <<"redact_api_tokens", "API token IDs">>,
       <<"redact_cpu_flags", "CPU flags and capabilities">>,
       <<"redact_usernames", "Usernames (except root)">>,
       <<"redact_email_addresses", "Email addresses">> >>

RECURSIVE SummaryFrom(_, _, _)
SummaryFrom(cfg, i, summary) ==
    IF i > Len(SUMMARY_ORDER) THEN Ok(summary)
    ELSE IF ~HasFlag(cfg, SUMMARY_ORDER[i][1]) THEN Raise(AttributeError)
    ELSE SummaryFrom(cfg, i + 1,
                     IF cfg[SUMMARY_ORDER[i][1]]
                     THEN Append(summary, SUMMARY_ORDER[i][2])
                     ELSE summary)

get_redaction_summary(cfg) == SummaryFrom(cfg, 1, <<>>)

(***************************************************************************)
(* Inputs of the calls.                                                    *)
(***************************************************************************)
MAC_SAMPLE == <<"A", "A", ":", "B", "B", ":", "C", "C", ":",
                "D", "D", ":", "E", "E", ":", "F", "F">>
SERIAL_SAMPLE == <<"S", "1">>
WWN_SAMPLE == <<"0", "x", "5">>
CPU_SAMPLE == <<"f", "p", "u", " ", "v", "m", "e">>
EMAIL_SAMPLE == <<"a", "@", "b", ".", "c">>
TOKEN_SAMPLE == <<"a", "@", "p", "a", "m", "!", "t">>

MacValues == {None, <<>>, MAC_SAMPLE, MAC_REDACTED}
SerialValues == {None, <<>>, SERIAL_SAMPLE, REDACTED}
WwnValues == {None, <<>>, WWN_SAMPLE, REDACTED}
CpuValues == {None, <<>>, CPU_SAMPLE, CPU_REDACTED}
EmailValues == {None, <<>>, EMAIL_SAMPLE, REDACTED}
TokenValues == {None, <<>>, TOKEN_SAMPLE, REDACTED}

\* usernames that are not the system account: one with two '@' and one
\* without '@'; a pseudonym that was returned is a username with one '@'
UserNames == {<<"a", "@", "p", "a", "m", "@", "x">>,
              <<"c">>}
RootNames == {<<"r", "o", "o", "t", "@", "p", "a", "m">>,
              <<"r", "o", "o", "t", "@", "p", "v", "e">>}

K_bridge == <<"b", "r", "i", "d", "g", "e">>
V_vmbr0 == <<"v", "m", "b", "r", "0">>
K_model == <<"m", "o", "d", "e", "l">>
V_virtio == <<"v", "i", "r", "t", "i", "o">>
K_devpath == <<"d", "e", "v", "p", "a", "t", "h">>
V_sda == <<"/", "d", "e", "v", "/", "s", "d", "a">>
K_comment == <<"c", "o", "m", "m", "e", "n", "t">>
V_ops == <<"o", "p", "s">>

InterfaceRecords ==
    {NoneRecord, <<>>,
     << <<K_hwaddr, MAC_SAMPLE>>, <<K_bridge, V_vmbr0>> >>,
     << <<K_model, V_virtio>>, <<K_macaddr, MAC_SAMPLE>>, <<K_bridge, V_vmbr0>> >>,
     << <<K_mac, MAC_REDACTED>>, <<K_hardware_address, MAC_SAMPLE>> >>,
     << <<K_bridge, V_vmbr0>>, <<K_hwaddr, None>> >>,
     << <<K_bridge, V_vmbr0>> >>}

DiskRecords ==
    {NoneRecord, <<>>,
     << <<K_devpath, V_sda>>, <<K_serial, SERIAL_SAMPLE>>, <<K_wwn, WWN_SAMPLE>> >>,
     << <<K_serial, SERIAL_SAMPLE>>, <<K_devpath, V_sda>> >>,
     << <<K_wwn, WWN_SAMPLE>>, <<K_serial, <<>> >> >>,
     << <<K_devpath, V_sda>> >>}

UserRecords ==
    {NoneRecord, <<>>,
     << <<K_email, EMAIL_SAMPLE>>, <<K_comment, V_ops>> >>,
     << <<K_userid, None>>, <<K_email, <<>> >> >>}
    \cup {<< <<K_userid, u>>, <<K_email, EMAIL_SAMPLE>> >> : u \in UserNames}
    \cup {<< <<K_comment, V_ops>>, <<K_userid, u>> >> : u \in RootNames}

TokenRecords ==
    {NoneRecord, <<>>,
     << <<K_tokenid, TOKEN_SAMPLE>>, <<K_comment, V_ops>> >>,
     << <<K_user, None>>, <<K_tokenid, <<>> >> >>}
    \cup {<< <<K_tokenid, TOKEN_SAMPLE>>, <<K_user, u>> >> : u \in UserNames}
    \cup {<< <<K_user, u>>, <<K_comment, V_ops>> >> : u \in RootNames}

\* the value the previous call returned, when that call was the rule `name`:
\* a caller may pass a rule's output to the rule again
Previous(name) == IF op = name /\ raised = NoException THEN {ret} ELSE {}

(***************************************************************************)
(* The state machine: one Redactor and its caller.                         *)
(*   config, username_map, username_counter : the fields of the Redactor   *)
(*   op, arg      : the last call and its argument as it was passed        *)
(*   input        : the argument object as the call left it                *)
(*   ret, raised  : what the call returned, or the exception it raised     *)
(*   issued       : what the caller has been handed so far: the pairs       *)
(*                  <<username, value returned for it>> of the calls that   *)
(*                  pseudonymize (flag on, username present, not root@)     *)
(***************************************************************************)
\* the calls on username that reach the pseudonym map
Pseudonymizes(cfg, username) ==
    /\ HasFlag(cfg, "redact_usernames")
    /\ cfg["redact_usernames"]
    /\ ~Falsy(username)
    /\ ~StartsWith(username, <<"r", "o", "o", "t", "@">>)

\* the pair a call of redact_username hands to the caller
Issue(cfg, username, r) ==
    IF r.exc = NoException /\ Pseudonymizes(cfg, username)
    THEN {<<username, r.val>>}
    ELSE {}

\* the pair a call of redact_user_info / redact_token_info hands to the caller
IssueKey(cfg, record, key, r) ==
    IF ~FalsyRecord(record) /\ DictHas(record, key) /\ r.exc = NoException
    THEN Issue(cfg, DictGet(record, key), Ok(DictGet(r.val, key)))
    ELSE {}

Init ==
    /\ config \in Configs
    /\ username_map = <<>>
    /\ username_counter = 0
    /\ op = "__init__"
    /\ arg = NoValue
    /\ input = NoValue
    /\ ret = NoValue
    /\ raised = NoException
    /\ issued = {}
    /\ generators = <<>>
    /\ callers = <<>>

\* a call of a method that assigns no field of the Redactor
Returns(name, a, r) ==
    /\ op' = name
    /\ arg' = a
    /\ input' = a
    /\ ret' = r.val
    /\ raised' = r.exc
    /\ UNCHANGED <<config, username_map, username_counter, issued,
                   generators, callers>>

\* a call of a method that yields the pseudonym state and the caller's record
ReturnsRecord(name, a, r, pairs) ==
    /\ r.counter <= MaxCounter
    /\ issued' = issued \cup pairs
    /\ op' = name
    /\ arg' = a
    /\ input' = r.input
    /\ ret' = r.val
    /\ raised' = r.exc
    /\ username_map' = r.map
    /\ username_counter' = r.counter
    /\ UNCHANGED <<config, generators, callers>>

RedactMacAddress ==
    \E mac \in MacValues \cup Previous("redact_mac_address") :
        Returns("redact_mac_address", mac, redact_mac_address(config, mac))

RedactSerial ==
    \E serial \in SerialValues \cup Previous("redact_serial") :
        Returns("redact_serial", serial, redact_serial(config, serial))

RedactWwn ==
    \E wwn \in WwnValues \cup Previous("redact_wwn") :
        Returns("redact_wwn", wwn, redact_wwn(config, wwn))

RedactCpuFlags ==
    \E flags \in CpuValues \cup Previous("redact_cpu_flags") :
        Returns("redact_cpu_flags", flags, redact_cpu_flags(config, flags))

RedactEmail ==
    \E email \in EmailValues \cup Previous("redact_email") :
        Returns("redact_email", email, redact_email(config, email))

RedactTokenId ==
    \E token_id \in TokenValues \cup Previous("redact_token_id") :
        Returns("redact_token_id", token_id, redact_token_id(config, token_id))

RedactUsername ==
    \E username \in {None, <<>>} \cup RootNames \cup UserNames
                    \cup Previous("redact_username") :
        LET r == redact_username(config, username_map, username_counter, username)
        IN ReturnsRecord("redact_username", username,
                         RecordResult(r.val, r.exc, username, r.map, r.counter),
                         Issue(config, username, r))

RedactNetworkInterface ==
    \E interface \in InterfaceRecords :
        ReturnsRecord("redact_network_interface", interface,
            redact_network_interface(config, username_map, username_counter,
                                     interface),
            {})

RedactDiskInfo ==
    \E disk \in DiskRecords :
        ReturnsRecord("redact_disk_info", disk,
            redact_disk_info(config, username_map, username_counter, disk),
            {})

RedactUserInfo ==
    \E user \in UserRecords :
        LET r == redact_user_info(config, username_map, username_counter, user)
        IN ReturnsRecord("redact_user_info", user, r,
                         IssueKey(config, user, K_userid, r))

RedactTokenInfo ==
    \E token \in TokenRecords :
        LET r == redact_token_info(config, username_map, username_counter, token)
        IN ReturnsRecord("redact_token_info", token, r,
                         IssueKey(config, token, K_user, r))

ShouldRedactAnything ==
    Returns("should_redact_anything", NoValue, should_redact_anything(config))

GetRedactionSummary ==
    Returns("get_redaction_summary", NoValue, get_redaction_summary(config))

Next ==
    \/ RedactMacAddress
    \/ RedactSerial
    \/ RedactWwn
    \/ RedactCpuFlags
    \/ RedactUsername
    \/ RedactEmail
    \/ RedactTokenId
    \/ RedactNetworkInterface
    \/ RedactDiskInfo
    \/ RedactUserInfo
    \/ RedactTokenInfo
    \/ ShouldRedactAnything
    \/ GetRedactionSummary

Spec == Init /\ [][Next]_vars

(***************************************************************************)
(* The configuration-string parsers of src/src/utils.py.  Each yields      *)
(* [val, exc]; val is the result dict.                                     *)
(***************************************************************************)
K_storage == <<"s", "t", "o", "r", "a", "g", "e">>
K_volume == <<"v", "o", "l", "u", "m", "e">>

\* variant: a key the mapping holds already keeps its value
RECURSIVE ParseOptions_KeepFirst(_, _)
ParseOptions_KeepFirst(result, parts) ==
    IF parts = <<>> THEN result
    ELSE LET part == Head(parts)
         IN IF Contains(part, "=")
            THEN LET kv == SplitOnce(part, "=")
                 IN ParseOptions_KeepFirst(
                        IF DictHas(result, kv[1]) THEN result
                        ELSE DictSet(result, kv[1], kv[2]),
                        Tail(parts))
            ELSE ParseOptions_KeepFirst(result, Tail(parts))

\* variant: a key seen again moves to the end of the mapping
RECURSIVE ParseOptions_MoveLast(_, _)
ParseOptions_MoveLast(result, parts) ==
    IF parts = <<>> THEN result
    ELSE LET part == Head(parts)
         IN IF Contains(part, "=")
            THEN LET kv == SplitOnce(part, "=")
                     others == SelectSeq(result, LAMBDA p : p[1] # kv[1])
                 IN ParseOptions_MoveLast(Append(others, <<kv[1], kv[2]>>),
                                          Tail(parts))
            ELSE ParseOptions_MoveLast(result, Tail(parts))

\* variant: a segment without '=' is kept as a key with an empty value
RECURSIVE ParseOptions_KeepBare(_, _)
ParseOptions_KeepBare(result, parts) ==
    IF parts = <<>> THEN result
    ELSE LET part == Head(parts)
         IN IF Contains(part, "=")
            THEN LET kv == SplitOnce(part, "=")
                 IN ParseOptions_KeepBare(DictSet(result, kv[1], kv[2]),
                                          Tail(parts))
            ELSE ParseOptions_KeepBare(DictSet(result, part, <<>>), Tail(parts))

\* for part in parts[1:]: if '=' in part: key, value = part.split('=', 1);
\* result[key] = value
RECURSIVE ParseOptions(_, _)
ParseOptions(result, parts) ==
    IF parts = <<>> THEN result
    ELSE LET part == Head(parts)
         IN IF Contains(part, "=")
            THEN LET kv == SplitOnce(part, "=")
                 IN ParseOptions(DictSet(result, kv[1], kv[2]), Tail(parts))
            ELSE ParseOptions(result, Tail(parts))

\* variant: an empty string is answered with the empty mapping
parse_disk_string_EmptyGuard(disk_str) ==
    IF disk_str = None THEN Raise(AttributeError)
    ELSE IF disk_str = <<>> THEN Ok(<<>>)
    ELSE LET parts == Split(disk_str, ",")
             first == IF Contains(parts[1], ":")
                      THEN LET sv == SplitOnce(parts[1], ":")
                           IN << <<K_storage, sv[1]>>, <<K_volume, sv[2]>> >>
                      ELSE << <<K_volume, parts[1]>> >>
         IN Ok(ParseOptions(first, Tail(parts)))

\* variant: an empty first segment is rejected
parse_disk_string_Strict(disk_str) ==
    IF disk_str = None THEN Raise(AttributeError)
    ELSE LET parts == Split(disk_str, ",")
             first == IF Contains(parts[1], ":")
                      THEN LET sv == SplitOnce(parts[1], ":")
                           IN << <<K_storage, sv[1]>>, <<K_volume, sv[2]>> >>
                      ELSE << <<K_volume, parts[1]>> >>
         IN IF parts[1] = <<>> THEN Raise("ValueError")
            ELSE Ok(ParseOptions(first, Tail(parts)))

\* None has no split method
parse_disk_string(disk_str) ==
    IF disk_str = None THEN Raise(AttributeError)
    ELSE LET parts == Split(disk_str, ",")
             first == IF Contains(parts[1], ":")
                      THEN LET sv == SplitOnce(parts[1], ":")
                           IN << <<K_storage, sv[1]>>, <<K_volume, sv[2]>> >>
                      ELSE << <<K_volume, parts[1]>> >>
         IN Ok(ParseOptions(first, Tail(parts)))

\* variant: a first segment without '=' is taken as the model
parse_network_string_BareModel(net_str) ==
    IF net_str = None THEN Raise(AttributeError)
    ELSE LET parts == Split(net_str, ",")
             first == IF Contains(parts[1], "=")
                      THEN LET mm == SplitOnce(parts[1], "=")
                           IN << <<K_model, mm[1]>>, <<K_macaddr, mm[2]>> >>
                      ELSE << <<K_model, parts[1]>> >>
         IN Ok(ParseOptions(first, Tail(parts)))

parse_network_string(net_str) ==
    IF net_str = None THEN Raise(AttributeError)
    ELSE LET parts == Split(net_str, ",")
             first == IF Contains(parts[1], "=")
                      THEN LET mm == SplitOnce(parts[1], "=")
                           IN << <<K_model, mm[1]>>, <<K_macaddr, mm[2]>> >>
                      ELSE <<>>
         IN Ok(ParseOptions(first, Tail(parts)))

(***************************************************************************)
(* The parsers and their caller.  The caller holds a configuration value   *)
(* of the API response (arg, while op = "value"): a first segment from    *)
(* FirstSegments followed by segments from OptionSegments, at most MaxSegs *)
(* segments in all, or None.  It then hands the value to one of the        *)
(* parsers.                                                                *)
(***************************************************************************)
\* parts[0]: empty, bare, with two ':', with '=' and a value holding ':',
\* and '=' alone
FirstSegments ==
    {<<>>,
     <<"v">>,
     <<"s", ":", "v", ":", "w">>,
     <<"m", "=", "a", ":", "b">>,
     <<"=">>}

\* parts[1:]: empty, bare, key k twice with different values (one holding
\* '='), and the four keys the first segment also gives (one with a value
\* holding ':')
OptionSegments ==
    {<<>>,
     <<"v">>,
     <<"k", "=", "v">>,
     <<"k", "=", "w", "=", "z">>,
     K_model \o <<"=", "a", ":", "b">>,
     K_volume \o <<"=", "x">>,
     K_storage \o <<"=", "y">>,
     K_macaddr \o <<"=", "q">>}

ParseInit ==
    /\ config = ProxmoxConfig
    /\ username_map = <<>>
    /\ username_counter = 0
    /\ op = "__init__"
    /\ arg = NoValue
    /\ input = NoValue
    /\ ret = NoValue
    /\ raised = NoException
    /\ issued = {}
    /\ generators = <<>>
    /\ callers = <<>>

\* for key, value in config.items(): the value grows by one segment
ConfigValue ==
    /\ \/ /\ op = "__init__"
          /\ \E seg \in FirstSegments : arg' = seg
       \/ /\ op = "value"
          /\ Len(Split(arg, ",")) < MaxSegs
          /\ \E seg \in OptionSegments : arg' = arg \o <<",">> \o seg
    /\ op' = "value"
    /\ input' = arg'
    /\ UNCHANGED <<config, username_map, username_counter, ret, raised, issued,
                   generators, callers>>

ParseDiskString ==
    /\ op = "value"
    /\ \E disk_str \in {arg, None} :
           Returns("parse_disk_string", disk_str, parse_disk_string(disk_str))

ParseNetworkString ==
    /\ op = "value"
    /\ \E net_str \in {arg, None} :
           Returns("parse_network_string", net_str, parse_network_string(net_str))

ParseNext ==
    \/ ConfigValue
    \/ ParseDiskString
    \/ ParseNetworkString

SpecParse == ParseInit /\ [][ParseNext]_vars

(***************************************************************************)
(* A generation run.  main() builds the document generators and calls      *)
(* generate() on each; BaseDocumentGenerator.__init__ gives every          *)
(* generator a Redactor of its own (self.redactor = Redactor(config)),     *)
(* which the generator's code reaches as self.redactor.  generators[g] is  *)
(* generator g with the state of its Redactor.                             *)
(***************************************************************************)
\* the policies of a run: every flag on, every flag off, no flag defined
RunConfigs ==
    {ProxmoxConfig} \cup {p \in Policies : \A f, g \in Flags : p[f] = p[g]}

\* the usernames the API reports in a run
RunNames == {None} \cup UserNames \cup RootNames

RunInit ==
    /\ config \in RunConfigs
    /\ username_map = <<>>
    /\ username_counter = 0
    /\ op = "__init__"
    /\ arg = NoValue
    /\ input = NoValue
    /\ ret = NoValue
    /\ raised = NoException
    /\ issued = {}
    /\ generators = <<>>
    /\ callers = <<>>

\* Redactor.__init__: self._username_map = {}, self._username_counter = 0
Redactor(cfg) == [username_map |-> <<>>, username_counter |-> 0]

\* BaseDocumentGenerator.__init__: self.redactor = Redactor(config)
BaseDocumentGenerator(cfg) == [redactor |-> Redactor(cfg)]

\* main: the list of generators grows by one generator
GeneratorInit ==
    /\ Len(generators) < MaxGenerators
    /\ generators' = Append(generators, BaseDocumentGenerator(config))
    /\ op' = "BaseDocumentGenerator.__init__"
    /\ arg' = NoValue
    /\ input' = NoValue
    /\ ret' = NoValue
    /\ raised' = NoException
    /\ UNCHANGED <<config, username_map, username_counter, issued, callers>>

\* self.redactor.redact_username(username) in the code of generator g
GeneratorRedactUsername ==
    \E g \in 1..Len(generators) : \E username \in RunNames :
        LET self == generators[g]
            r == redact_username(config, self.redactor.username_map,
                                 self.redactor.username_counter, username)
        IN /\ r.counter <= MaxCounter
           /\ generators' =
                 [generators EXCEPT ![g].redactor =
                     [username_map |-> r.map, username_counter |-> r.counter]]
           /\ issued' = issued \cup Issue(config, username, r)
           /\ op' = "redact_username"
           /\ arg' = username
           /\ input' = username
           /\ ret' = r.val
           /\ raised' = r.exc
           /\ UNCHANGED <<config, username_map, username_counter, callers>>

RunNext ==
    \/ GeneratorInit
    \/ GeneratorRedactUsername

SpecRun == RunInit /\ [][RunNext]_vars

(***************************************************************************)
(* Callers that share one Redactor.  Every caller has a list of usernames  *)
(* to redact (program) and the index of its next call (pc); a call of      *)
(* redact_username runs from its first line to its return as one step, and *)
(* the steps of the callers interleave in every order.                     *)
(***************************************************************************)
\* the usernames a caller redacts, in its order
Programs ==
    {<<<<"a", "@", "p", "a", "m", "@", "x">>, <<"c">>>>,
     <<<<"c">>, <<"a", "@", "p", "a", "m", "@", "x">>>>,
     <<<<"c">>, <<"r", "o", "o", "t", "@", "p", "a", "m">>, <<"c">>>>,
     <<None, <<"a", "@", "p", "a", "m", "@", "x">>>>}

SharedInit ==
    /\ config \in RunConfigs
    /\ username_map = <<>>
    /\ username_counter = 0
    /\ op = "__init__"
    /\ arg = NoValue
    /\ input = NoValue
    /\ ret = NoValue
    /\ raised = NoException
    /\ issued = {}
    /\ generators = <<>>
    /\ callers \in [1..MaxCallers -> {[program |-> p, pc |-> 1] : p \in Programs}]

\* the next call of caller c: redact_username as one step on the shared
\* map and counter
CallerRedactUsername ==
    \E c \in DOMAIN callers :
        /\ callers[c].pc <= Len(callers[c].program)
        /\ LET username == callers[c].program[callers[c].pc]
               r == redact_username(config, username_map, username_counter,
                                    username)
           IN /\ r.counter <= MaxCounter
              /\ username_map' = r.map
              /\ username_counter' = r.counter
              /\ issued' = issued \cup Issue(config, username, r)
              /\ op' = "redact_username"
              /\ arg' = username
              /\ input' = username
              /\ ret' = r.val
              /\ raised' = r.exc
        /\ callers' = [callers EXCEPT ![c].pc = @ + 1]
        /\ UNCHANGED <<config, generators>>

SharedNext == CallerRedactUsername

SpecShared == SharedInit /\ [][SharedNext]_vars

(***************************************************************************)
(* VMNetworkGenerator.collect_data: every 'netN' value of the VM's         *)
(* configuration is parsed, given its interface name and number, and       *)
(* handed to the generator's Redactor.                                     *)
(***************************************************************************)
K_interface == <<"i", "n", "t", "e", "r", "f", "a", "c", "e">>
K_interface_num == K_interface \o <<"_", "n", "u", "m">>
NET0 == <<"n", "e", "t", "0">>

\* the body of the loop over config.items() for one key and its value
collect_network(cfg, map, counter, key, value) ==
    LET p == parse_network_string(value)
    IN IF p.exc # NoException
       THEN RecordResult(NoValue, p.exc, value, map, counter)
       ELSE LET iface_num == SubSeq(key, 4, Len(key))
                parsed == DictSet(DictSet(p.val, K_interface, key),
                                  K_interface_num, iface_num)
                r == redact_network_interface(cfg, map, counter, parsed)
            IN RecordResult(r.val, r.exc, value, r.map, r.counter)

VmInit ==
    /\ config \in RunConfigs
    /\ username_map = <<>>
    /\ username_counter = 0
    /\ op = "__init__"
    /\ arg = NoValue
    /\ input = NoValue
    /\ ret = NoValue
    /\ raised = NoException
    /\ issued = {}
    /\ generators = <<>>
    /\ callers = <<>>

\* for key, value in config.items(): if key.startswith('net') ...
VMNetworkCollect ==
    /\ op = "value"
    /\ ReturnsRecord("collect_data", arg,
                     collect_network(config, username_map, username_counter,
                                     NET0, arg),
                     {})

VmNext ==
    \/ ConfigValue
    \/ VMNetworkCollect

SpecVm == VmInit /\ [][VmNext]_vars

(***************************************************************************)
(* Properties.                                                             *)
(***************************************************************************)
\* every flag of the policy is defined
FullPolicy == DOMAIN config = Flags

UsernamesOn == "redact_usernames" \in DOMAIN config /\ config["redact_usernames"]

\* u starts with the literal prefix 'root@'
RootAt(u) ==
    /\ Len(u) >= 5
    /\ u[1] = "r" /\ u[2] = "o" /\ u[3] = "o" /\ u[4] = "t" /\ u[5] = "@"

\* the position of the first c in s, Len(s) + 1 when there is none
IndexOf(s, c) ==
    IF \E i \in 1..Len(s) : s[i] = c
    THEN CHOOSE i \in 1..Len(s) : s[i] = c /\ \A j \in 1..(i - 1) : s[j] # c
    ELSE Len(s) + 1

\* the part of s before its first c (all of s when there is none)
Before(s, c) == SubSeq(s, 1, IndexOf(s, c) - 1)

\* the part of s after its first c (empty when there is none)
After(s, c) == SubSeq(s, IndexOf(s, c) + 1, Len(s))

\* C1 (pseudonym stability): with redact_usernames enabled, all the calls
\* that redact one non-empty, non-root username u -- redact_username,
\* redact_user_info through 'userid', redact_token_info through 'user' --
\* have returned one and the same pseudonym for u, whatever calls came in
\* between.
C1_PseudonymStability ==
    \A p \in issued : \A q \in issued : p[1] = q[1] => p[2] = q[2]

\* u was given its pseudonym first, a second username was mapped after it,
\* and redact_token_info has just returned u's first pseudonym again
C1_Witness ==
    /\ UsernamesOn
    /\ op = "redact_token_info"
    /\ username_counter = 2
    /\ \E u \in UserNames :
          /\ arg = << <<K_tokenid, TOKEN_SAMPLE>>, <<K_user, u>> >>
          /\ <<u, DictGet(ret, K_user)>> \in issued
          /\ SubSeq(DictGet(ret, K_user), 1, 6) = <<"u", "s", "e", "r", "1", "@">>

\* C2 (pseudonym distinctness): with redact_usernames enabled, two distinct
\* non-empty, non-root usernames never receive the same pseudonym, whatever
\* their realms and the order of the calls.
C2_PseudonymDistinctness ==
    \A p \in issued : \A q \in issued : p[1] # q[1] => p[2] # q[2]

\* two distinct usernames hold pseudonyms of the same realm
C2_Witness ==
    /\ UsernamesOn
    /\ \E p \in issued : \E q \in issued :
          /\ p[1] # q[1]
          /\ After(p[2], "@") = After(q[2], "@")

\* u is a username the call gives a new pseudonym
C3_NewName(u) ==
    /\ UsernamesOn
    /\ u # None /\ u # <<>> /\ ~RootAt(u)
    /\ u \notin DOMAIN username_map

\* the decimal numeral of n, 1 <= n <= 9
C3_Numeral(n) ==
    << <<"1">>, <<"2">>, <<"3">>, <<"4">>, <<"5">>, <<"6">>, <<"7">>, <<"8">>,
       <<"9">> >>[n]

\* the username the next call redacts and the value it returns for it
C3_Called ==
    IF op' = "redact_username" /\ raised' = NoException
    THEN {<<arg', ret'>>}
    ELSE IF /\ op' = "redact_user_info" /\ raised' = NoException
            /\ ~FalsyRecord(arg') /\ DictHas(arg', K_userid)
    THEN {<<DictGet(arg', K_userid), DictGet(ret', K_userid)>>}
    ELSE IF /\ op' = "redact_token_info" /\ raised' = NoException
            /\ ~FalsyRecord(arg') /\ DictHas(arg', K_user)
    THEN {<<DictGet(arg', K_user), DictGet(ret', K_user)>>}
    ELSE {}

\* what C3 says of one step
C3_Step ==
    /\ username_counter' >= username_counter
    /\ username_counter' <= username_counter + 1
    /\ (username_counter' = username_counter + 1)
           <=> (\E c \in C3_Called : C3_NewName(c[1]))
    /\ \A c \in C3_Called :
           C3_NewName(c[1]) =>
               Before(c[2], "@") =
                   <<"u", "s", "e", "r">> \o C3_Numeral(username_counter')

\* C3 (counter monotonicity): the counter starts at 0, never decreases, and
\* a call changes it only by adding exactly one, which happens exactly when
\* the call redacts a username that is not empty, not root@ and not yet in
\* the map, with redact_usernames enabled; that username then receives
\* 'userN@...' with N the new counter value, so the first one gets user1.
C3_CounterMonotonicity == [][C3_Step]_vars

\* the second new username has just received 'user2@...'
C3_Witness ==
    /\ op = "redact_username"
    /\ username_counter = 2
    /\ arg \in UserNames
    /\ Cardinality(DOMAIN username_map) = 2
    /\ SubSeq(ret, 1, 6) = <<"u", "s", "e", "r", "2", "@">>

\* C4 (root exemption): redact_username returns a username that starts with
\* 'root@' unchanged, with redact_usernames enabled as well as disabled, at
\* any point of a run.
C4_RootExemption ==
    (/\ op = "redact_username"
     /\ "redact_usernames" \in DOMAIN config
     /\ RootAt(arg))
        => (raised = NoException /\ ret = arg)

\* 'root@pve' came back unchanged from a Redactor that redacts usernames and
\* already holds two pseudonyms
C4_Witness ==
    /\ op = "redact_username"
    /\ UsernamesOn
    /\ username_counter = 2
    /\ arg = <<"r", "o", "o", "t", "@", "p", "v", "e">>
    /\ ret = arg

StatelessRules == {"redact_mac_address", "redact_serial", "redact_wwn",
                   "redact_cpu_flags", "redact_email", "redact_token_id"}

CompositeOperations == {"redact_network_interface", "redact_disk_info",
                        "redact_user_info", "redact_token_info"}

\* a step in which a rule of `rules` is applied to what its previous
\* application returned yields that same value again
C5_Reapplied(rules) ==
    (/\ op \in rules /\ op' = op
     /\ raised = NoException /\ raised' = NoException
     /\ arg' = ret)
        => ret' = ret

C6_AllOff == FullPolicy /\ \A f \in Flags : ~config[f]

\* C6 (disabled-flag pass-through): when all six flags are false, every
\* per-field rule and every composite operation returns a value equal to its
\* input, and should_redact_anything() returns false.
C6_DisabledPassThrough ==
    C6_AllOff =>
        /\ raised = NoException
        /\ op \in StatelessRules \cup {"redact_username"} \cup CompositeOperations
               => ret = arg
        /\ op = "should_redact_anything" => ret = FALSE

\* all flags off, and a user record with a non-root userid and an email came
\* back as it went in, with nothing entered in the map
C6_Witness ==
    /\ C6_AllOff
    /\ op = "redact_user_info"
    /\ \E u \in UserNames : arg = << <<K_userid, u>>, <<K_email, EMAIL_SAMPLE>> >>
    /\ ret = arg
    /\ username_counter = 0

\* the flag that governs a stateless rule
C7_Flag(rule) ==
    CASE rule = "redact_mac_address" -> "redact_mac_addresses"
      [] rule = "redact_serial" -> "redact_hardware_serials"
      [] rule = "redact_wwn" -> "redact_hardware_serials"
      [] rule = "redact_cpu_flags" -> "redact_cpu_flags"
      [] rule = "redact_email" -> "redact_email_addresses"
      [] rule = "redact_token_id" -> "redact_api_tokens"

\* the fixed replacement of a stateless rule
C7_Replacement(rule) ==
    CASE rule = "redact_mac_address" ->
             <<"X", "X", ":", "X", "X", ":", "X", "X", ":",
               "X", "X", ":", "X", "X", ":", "X", "X">>
      [] rule = "redact_cpu_flags" -> CPU_REDACTED
      [] OTHER -> <<"R", "E", "D", "A", "C", "T", "E", "D">>

\* C7 (stateless rules): each of the six stateless rules returns its fixed
\* replacement when its flag is on and the value is present (not None, not
\* empty), and the input otherwise: 'XX:XX:XX:XX:XX:XX' for a MAC address,
\* 'REDACTED' for a serial, a WWN, an email and a token ID, and one fixed
\* message, the same for all flags strings, for CPU flags.
C7_StatelessRules ==
    (op \in StatelessRules /\ C7_Flag(op) \in DOMAIN config)
        => /\ raised = NoException
           /\ ret = IF config[C7_Flag(op)] /\ arg # None /\ arg # <<>>
                    THEN C7_Replacement(op)
                    ELSE arg

\* the email rule replaced an address while the username flag was off
C7_Witness ==
    /\ op = "redact_email"
    /\ FullPolicy
    /\ config["redact_email_addresses"] /\ ~config["redact_usernames"]
    /\ arg = EMAIL_SAMPLE
    /\ ret = <<"R", "E", "D", "A", "C", "T", "E", "D">>

\* the keys that hold a MAC address
C8_Aliases == {K_hwaddr, K_mac, K_macaddr, K_hardware_address}

\* C8 (network-interface redaction): redact_network_interface returns a
\* record with the keys of its input, in the same order; the value of every
\* key among hwaddr, mac, macaddr and hardware-address is the MAC-address
\* rule's result for the input's value, every other value is the input's.
C8_NetworkInterface ==
    (op = "redact_network_interface" /\ "redact_mac_addresses" \in DOMAIN config)
        => /\ raised = NoException
           /\ IF arg = NoneRecord \/ arg = <<>> THEN ret = arg
              ELSE /\ Len(ret) = Len(arg)
                   /\ \A i \in 1..Len(arg) :
                         /\ ret[i][1] = arg[i][1]
                         /\ ret[i][2] =
                               IF arg[i][1] \in C8_Aliases
                               THEN redact_mac_address(config, arg[i][2]).val
                               ELSE arg[i][2]

\* the example of the specification: only MAC redaction enabled,
\* {hwaddr: 'AA:BB:CC:DD:EE:FF', bridge: 'vmbr0'}
C8_Witness ==
    /\ op = "redact_network_interface"
    /\ FullPolicy
    /\ \A f \in Flags : config[f] <=> f = "redact_mac_addresses"
    /\ arg = << <<K_hwaddr, MAC_SAMPLE>>, <<K_bridge, V_vmbr0>> >>
    /\ ret = << <<K_hwaddr, <<"X", "X", ":", "X", "X", ":", "X", "X", ":",
                              "X", "X", ":", "X", "X", ":", "X", "X">> >>,
                <<K_bridge, V_vmbr0>> >>

OptionHasKey(s, key) ==
    \E i \in 1..Len(s) :
        /\ s[i] = ","
        /\ i + Len(key) + 1 <= Len(s)
        /\ SubSeq(s, i + 1, i + Len(key)) = key
        /\ s[i + Len(key) + 1] = "="

\* C10 (disk decode, primary segment): parse_disk_string takes the text
\* before the first ',' as the first segment.  If that segment contains
\* ':', the result starts with 'storage', the text before the segment's first
\* ':', and 'volume', the text after it, further ':' included.  If it
\* contains no ':', the result starts with 'volume', the whole segment, and
\* the segment produces no 'storage' key.  (An option segment named
\* 'storage' or 'volume' sets that key's value afterwards.)
C10_DiskPrimary ==
    (op = "parse_disk_string" /\ arg # None)
        => /\ raised = NoException
           /\ LET first == Before(arg, ",")
              IN IF \E i \in 1..Len(first) : first[i] = ":"
                 THEN /\ Len(ret) >= 2
                      /\ ret[1][1] = K_storage
                      /\ ret[2][1] = K_volume
                      /\ ~OptionHasKey(arg, K_storage)
                             => ret[1][2] = Before(first, ":")
                      /\ ~OptionHasKey(arg, K_volume)
                             => ret[2][2] = After(first, ":")
                 ELSE /\ Len(ret) >= 1
                      /\ ret[1][1] = K_volume
                      /\ ~OptionHasKey(arg, K_volume) => ret[1][2] = first
                      /\ ~OptionHasKey(arg, K_storage)
                             => \A i \in 1..Len(ret) : ret[i][1] # K_storage

\* 's:v:w,k=v' was decoded: storage 's', volume 'v:w'
C10_Witness ==
    /\ op = "parse_disk_string"
    /\ arg = <<"s", ":", "v", ":", "w", ",", "k", "=", "v">>
    /\ ret = << <<K_storage, <<"s">> >>, <<K_volume, <<"v", ":", "w">> >>,
                << <<"k">>, <<"v">> >> >>

Parsers == {"parse_disk_string", "parse_network_string"}

\* the positions at which the segments after the first one start
OptionStarts(s) == {i + 1 : i \in {j \in 1..Len(s) : s[j] = ","}}

\* the segment that starts at position i
SegmentAt(s, i) == Before(SubSeq(s, i, Len(s)), ",")

\* the start positions of the option segments that contain '='
OptionsOf(s) ==
    {i \in OptionStarts(s) :
        LET seg == SegmentAt(s, i)
        IN \E j \in 1..Len(seg) : seg[j] = "="}

\* the key of the option segment that starts at i
OptionKey(s, i) == Before(SegmentAt(s, i), "=")

\* the key of every option segment that contains '=', by its start position
OptionTable(s) == [i \in OptionsOf(s) |-> OptionKey(s, i)]

OptionKeys(s) ==
    LET table == OptionTable(s)
    IN {table[i] : i \in DOMAIN table}

\* the start of the last option segment whose key is k
LastOption(s, k) ==
    LET table == OptionTable(s)
    IN CHOOSE i \in DOMAIN table :
           /\ table[i] = k
           /\ \A j \in DOMAIN table : table[j] = k => j <= i

\* the keys the first segment gives, by the parser called
PrimaryKeys(parser, s) ==
    LET first == Before(s, ",")
    IN IF parser = "parse_disk_string"
       THEN IF \E i \in 1..Len(first) : first[i] = ":"
            THEN {K_storage, K_volume}
            ELSE {K_volume}
       ELSE IF \E i \in 1..Len(first) : first[i] = "="
            THEN {K_model, K_macaddr}
            ELSE {}

\* C11 (option segments, both decoders): every segment after the first that
\* contains '=' gives the key before its first '=' and, as value, all the
\* text after that '=', further '=' and ':' included, nothing trimmed (the
\* text of the last such segment when the key occurs more than once); a
\* segment without '=' gives no key: the keys of the result are those of the
\* first segment and of the segments with '=' only.
C11_OptionSegments ==
    (op \in Parsers /\ arg # None)
        => /\ raised = NoException
           /\ \A i \in OptionsOf(arg) :
                 \E j \in 1..Len(ret) :
                     /\ ret[j][1] = OptionKey(arg, i)
                     /\ ret[j][2] =
                           After(SegmentAt(arg, LastOption(arg, OptionKey(arg, i))),
                                 "=")
           /\ \A j \in 1..Len(ret) :
                 ret[j][1] \in PrimaryKeys(op, arg) \cup OptionKeys(arg)

\* 'v,k=w=z,v,model=a:b' was decoded as a disk string: the options give
\* k: 'w=z' and model: 'a:b', the bare segment 'v' gives nothing
C11_Witness ==
    /\ op = "parse_disk_string"
    /\ arg = <<"v", ",", "k", "=", "w", "=", "z", ",", "v", ",">>
               \o K_model \o <<"=", "a", ":", "b">>
    /\ ret = << <<K_volume, <<"v">> >>,
                << <<"k">>, <<"w", "=", "z">> >>,
                <<K_model, <<"a", ":", "b">> >> >>

\* C12 (network decode, primary segment): parse_network_string takes the
\* text before the first ',' as the first segment.  If that segment contains
\* '=', the result starts with 'model', the text before the segment's first
\* '=', and 'macaddr', the text after it, colons kept.  If it contains no
\* '=', the segment gives nothing: neither 'model' nor 'macaddr' is produced
\* from it and every key of the result comes from an option segment.  (An
\* option segment named 'model' or 'macaddr' sets that key afterwards.)
C12_NetworkPrimary ==
    (op = "parse_network_string" /\ arg # None)
        => /\ raised = NoException
           /\ LET first == Before(arg, ",")
              IN IF \E i \in 1..Len(first) : first[i] = "="
                 THEN /\ Len(ret) >= 2
                      /\ ret[1][1] = K_model
                      /\ ret[2][1] = K_macaddr
                      /\ ~OptionHasKey(arg, K_model)
                             => ret[1][2] = Before(first, "=")
                      /\ ~OptionHasKey(arg, K_macaddr)
                             => ret[2][2] = After(first, "=")
                 ELSE /\ \A j \in 1..Len(ret) : ret[j][1] \in OptionKeys(arg)
                      /\ ~OptionHasKey(arg, K_model)
                             => \A j \in 1..Len(ret) : ret[j][1] # K_model
                      /\ ~OptionHasKey(arg, K_macaddr)
                             => \A j \in 1..Len(ret) : ret[j][1] # K_macaddr

\* 'm=a:b,k=v' was decoded: model 'm', macaddr 'a:b'
C12_Witness ==
    /\ op = "parse_network_string"
    /\ arg = <<"m", "=", "a", ":", "b", ",", "k", "=", "v">>
    /\ ret = << <<K_model, <<"m">> >>, <<K_macaddr, <<"a", ":", "b">> >>,
                << <<"k">>, <<"v">> >> >>

\* the keys the first segment gives, in the order the parser stores them
PrimaryOrder(parser, s) ==
    LET keys == PrimaryKeys(parser, s)
    IN IF keys = {K_storage, K_volume} THEN <<K_storage, K_volume>>
       ELSE IF keys = {K_volume} THEN <<K_volume>>
       ELSE IF keys = {K_model, K_macaddr} THEN <<K_model, K_macaddr>>
       ELSE <<>>

\* the keys that occur in more than one option segment
RepeatedKeys(s) ==
    LET table == OptionTable(s)
    IN {table[i] : i \in {j \in DOMAIN table :
                             \E other \in DOMAIN table :
                                 other # j /\ table[other] = table[j]}}

\* the place of option key k in the result: the first segment's keys come
\* first, then the option keys by the place of their first occurrence
FirstSeenPosition(parser, s, k) ==
    LET primary == PrimaryOrder(parser, s)
        table == OptionTable(s)
        first == CHOOSE i \in DOMAIN table :
                     /\ table[i] = k
                     /\ \A j \in DOMAIN table : table[j] = k => j >= i
        \* the keys first seen before k, the first segment's keys excluded
        earlier == {table[i] : i \in {j \in DOMAIN table : j < first}}
                       \ PrimaryKeys(parser, s)
    IN IF k \in PrimaryKeys(parser, s)
       THEN CHOOSE j \in 1..Len(primary) : primary[j] = k
       ELSE Len(primary) + 1 + Cardinality(earlier)

\* C13 (duplicate option keys): a key that occurs in several option segments
\* of one string is held once by the decoded mapping, with the value of its
\* last occurrence, at the position where the key was first seen.
C13_DuplicateKeys ==
    (op \in Parsers /\ arg # None)
        => /\ raised = NoException
           /\ \A i, j \in 1..Len(ret) : ret[i][1] = ret[j][1] => i = j
           /\ \A k \in RepeatedKeys(arg) :
                 LET at == FirstSeenPosition(op, arg, k)
                 IN /\ at <= Len(ret)
                    /\ ret[at][1] = k
                    /\ ret[at][2] = After(SegmentAt(arg, LastOption(arg, k)), "=")

\* 'v,k=v,model=a:b,k=w=z' was decoded as a disk string: k occurs twice
\* with model in between; k stays before model and holds the value of its
\* last occurrence
C13_Witness ==
    /\ op = "parse_disk_string"
    /\ arg = <<"v", ",", "k", "=", "v", ",">> \o K_model
               \o <<"=", "a", ":", "b", ",", "k", "=", "w", "=", "z">>
    /\ ret = << <<K_volume, <<"v">> >>,
                << <<"k">>, <<"w", "=", "z">> >>,
                <<K_model, <<"a", ":", "b">> >> >>

\* a str: a sequence of characters
IsStr(v) == \A i \in 1..Len(v) : v[i] \in STRING /\ Len(v[i]) = 1

\* a dict of str to str
IsMapping(d) ==
    /\ d # None
    /\ \A j \in 1..Len(d) :
          /\ Len(d[j]) = 2
          /\ IsStr(d[j][1])
          /\ IsStr(d[j][2])
    /\ \A i, j \in 1..Len(d) : d[i][1] = d[j][1] => i = j

\* C14 (decoder totality): parse_disk_string and parse_network_string return
\* a mapping, without raising, for every input string: the empty string,
\* strings with empty segments, leading or trailing commas, segments without
\* '=' and first segments without ':' or '=' included.
C14_DecoderTotality ==
    (op \in Parsers /\ arg # None)
        => /\ raised = NoException
           /\ ret # NoValue
           /\ IsMapping(ret)

\* ',v,' was decoded as a disk string: an empty first segment, a segment
\* without '=' and a trailing comma give the mapping {volume: ''}
C14_Witness ==
    /\ op = "parse_disk_string"
    /\ arg = <<",", "v", ",">>
    /\ raised = NoException
    /\ ret = << <<K_volume, <<>> >> >>

\* C15 (absent input): given None, every composite redaction operation and
\* both decode operations return the input unchanged rather than failing.
C15_AbsentInput ==
    /\ (op \in CompositeOperations /\ arg = NoneRecord)
           => (raised = NoException /\ ret = arg)
    /\ (op \in Parsers /\ arg = None)
           => (raised = NoException /\ ret = arg)

\* C16 (missing policy flag): when the policy object does not define the
\* redact_* flags, no rule, composite operation or introspection operation
\* fails, and every per-field rule returns its value unchanged.
C16_MissingFlag ==
    (config = ProxmoxConfig /\ op # "__init__" /\ op # "value"
                            /\ op \notin Parsers)
        => /\ raised = NoException
           /\ op \in StatelessRules \cup {"redact_username"} => ret = arg

\* C17 (realm extraction): the realm of a newly assigned pseudonym is the
\* whole text of the username after its first '@' (a second '@' and what
\* follows included), and 'pam' when the username contains no '@'.
C17_RealmAfterFirstAt ==
    \A p \in issued :
        After(p[2], "@") =
            IF \E i \in 1..Len(p[1]) : p[1][i] = "@"
            THEN After(p[1], "@")
            ELSE <<"p", "a", "m">>

\* the place of a display name in the per-field rule table: MAC address,
\* hardware serial and WWN (one name), CPU flags, email address, API token
\* ID, username
C18_TableRank(name) ==
    CASE name = "MAC addresses" -> 1
      [] name = "Hardware serial numbers and WWN" -> 2
      [] name = "CPU flags and capabilities" -> 4
      [] name = "Email addresses" -> 5
      [] name = "API token IDs" -> 6
      [] name = "Usernames (except root)" -> 7

\* the display name of each flag
C18_Name ==
    [f \in Flags |->
        CASE f = "redact_mac_addresses" -> "MAC addresses"
          [] f = "redact_hardware_serials" -> "Hardware serial numbers and WWN"
          [] f = "redact_api_tokens" -> "API token IDs"
          [] f = "redact_cpu_flags" -> "CPU flags and capabilities"
          [] f = "redact_usernames" -> "Usernames (except root)"
          [] f = "redact_email_addresses" -> "Email addresses"]

\* the flags in the order in which the summary lists them
C18_DisplayOrder ==
    <<"redact_mac_addresses", "redact_hardware_serials", "redact_api_tokens",
      "redact_cpu_flags", "redact_usernames", "redact_email_addresses">>

\* C18 as stated (redaction summary order): get_redaction_summary returns
\* the names of the enabled rules and no other, in the order of the rules in
\* the per-field rule table (MAC address, hardware serial, WWN, CPU flags,
\* email address, API token ID, username), whichever subset is enabled.
C18_TableOrder ==
    (op = "get_redaction_summary" /\ FullPolicy)
        => /\ raised = NoException
           /\ {ret[i] : i \in 1..Len(ret)} = {C18_Name[f] : f \in {g \in Flags : config[g]}}
           /\ \A i, j \in 1..Len(ret) :
                 i < j => C18_TableRank(ret[i]) < C18_TableRank(ret[j])

\* C18 (redaction summary order, amended): under a policy that defines the
\* six flags, get_redaction_summary returns one name per enabled flag and
\* none for a disabled flag, in the fixed order MAC addresses, Hardware
\* serial numbers and WWN, API token IDs, CPU flags and capabilities,
\* Usernames (except root), Email addresses, whichever subset is enabled.
C18_SummaryOrder ==
    (op = "get_redaction_summary" /\ FullPolicy)
        => /\ raised = NoException
           /\ LET enabled == SelectSeq(C18_DisplayOrder, LAMBDA f : config[f])
              IN ret = [i \in 1..Len(enabled) |-> C18_Name[enabled[i]]]

\* the summary under a policy with the API-token and CPU-flag rules enabled
\* only: the token name comes before the CPU name
C18_Witness ==
    /\ op = "get_redaction_summary"
    /\ FullPolicy
    /\ \A f \in Flags : config[f] <=> f \in {"redact_api_tokens", "redact_cpu_flags"}
    /\ ret = <<"API token IDs", "CPU flags and capabilities">>

\* C19 (should_redact_anything): under a policy that defines the six flags,
\* should_redact_anything() returns true if and only if at least one of the
\* six flags is enabled, which is exactly when get_redaction_summary() is
\* not empty.
C19_AnyFlag ==
    (op = "should_redact_anything" /\ FullPolicy)
        => /\ raised = NoException
           /\ ret = (\E f \in Flags : config[f])
           /\ ret = (get_redaction_summary(config).val # <<>>)

\* should_redact_anything() returned true under a policy whose only enabled
\* flag is the last one it reads, redact_email_addresses
C19_Witness ==
    /\ op = "should_redact_anything"
    /\ FullPolicy
    /\ \A f \in Flags : config[f] <=> f = "redact_email_addresses"
    /\ ret = TRUE

\* C20 (disk-info redaction): redact_disk_info returns a record with the
\* keys of its input, in the same order, no 'serial' or 'wwn' added; the
\* value of 'serial' is the hardware-serial rule's result and the value of
\* 'wwn' the WWN rule's result for the input's value, every other value is
\* the input's.
C20_DiskInfo ==
    (op = "redact_disk_info" /\ "redact_hardware_serials" \in DOMAIN config)
        => /\ raised = NoException
           /\ IF arg = NoneRecord \/ arg = <<>> THEN ret = arg
              ELSE /\ Len(ret) = Len(arg)
                   /\ \A i \in 1..Len(arg) :
                         /\ ret[i][1] = arg[i][1]
                         /\ ret[i][2] =
                               IF arg[i][1] = K_serial
                               THEN redact_serial(config, arg[i][2]).val
                               ELSE IF arg[i][1] = K_wwn
                               THEN redact_wwn(config, arg[i][2]).val
                               ELSE arg[i][2]

\* a record with a device path, a serial and a WWN came back with the two
\* identifiers replaced and the device path kept
C20_Witness ==
    /\ op = "redact_disk_info"
    /\ "redact_hardware_serials" \in DOMAIN config
    /\ config["redact_hardware_serials"]
    /\ arg = << <<K_devpath, V_sda>>, <<K_serial, <<"S", "1">> >>,
                <<K_wwn, <<"0", "x", "5">> >> >>
    /\ ret = << <<K_devpath, V_sda>>,
                <<K_serial, <<"R", "E", "D", "A", "C", "T", "E", "D">> >>,
                <<K_wwn, <<"R", "E", "D", "A", "C", "T", "E", "D">> >> >>

\* the key a user or token record holds its username under
C21_NameKey(operation) ==
    IF operation = "redact_user_info" THEN K_userid ELSE K_user

\* the key a user or token record holds its email or token ID under
C21_RuleKey(operation) ==
    IF operation = "redact_user_info" THEN K_email ELSE K_tokenid

\* the email rule or the token-ID rule applied to v
C21_Rule(operation, v) ==
    IF operation = "redact_user_info"
    THEN redact_email(config, v).val
    ELSE redact_token_id(config, v).val

\* the username rule gives v a pseudonym: flag on, v present and not root@
C21_Pseudonymized(v) ==
    UsernamesOn /\ v # None /\ v # <<>> /\ ~RootAt(v)

\* C21 (user-info and token-info redaction): under a policy that defines the
\* six flags, redact_user_info returns a record with the keys of its input,
\* in the same order, none added; 'email' holds the email rule's result and
\* 'userid' the username rule's result (the pseudonym the map holds for the
\* username, or the username itself when the rule does not apply), each by
\* its own flag; every other value is the input's.  Likewise
\* redact_token_info with 'tokenid', the token-ID rule, and 'user'.
C21_UserAndTokenInfo ==
    (op \in {"redact_user_info", "redact_token_info"} /\ FullPolicy)
        => /\ raised = NoException
           /\ IF arg = NoneRecord \/ arg = <<>> THEN ret = arg
              ELSE /\ Len(ret) = Len(arg)
                   /\ \A i \in 1..Len(arg) :
                         /\ ret[i][1] = arg[i][1]
                         /\ IF arg[i][1] = C21_RuleKey(op)
                            THEN ret[i][2] = C21_Rule(op, arg[i][2])
                            ELSE IF arg[i][1] = C21_NameKey(op)
                            THEN IF C21_Pseudonymized(arg[i][2])
                                 THEN /\ arg[i][2] \in DOMAIN username_map
                                      /\ username_map[arg[i][2]] = ret[i][2]
                                      /\ <<arg[i][2], ret[i][2]>> \in issued
                                 ELSE ret[i][2] = arg[i][2]
                            ELSE ret[i][2] = arg[i][2]

\* usernames enabled and emails disabled: redact_user_info replaced 'userid'
\* and kept 'email'
C21_Witness ==
    /\ op = "redact_user_info"
    /\ FullPolicy
    /\ config["redact_usernames"]
    /\ ~config["redact_email_addresses"]
    /\ arg = << <<K_userid, <<"c">> >>, <<K_email, <<"a", "@", "b", ".", "c">> >> >>
    /\ ret = << <<K_userid, <<"u", "s", "e", "r", "1", "@", "p", "a", "m">> >>,
                <<K_email, <<"a", "@", "b", ".", "c">> >> >>

\* C22 (empty-string decode): parse_network_string('') returns the empty
\* mapping and parse_disk_string('') returns the mapping whose only key is
\* 'volume', with the empty string as value.
C22_EmptyStringDecode ==
    /\ (op = "parse_network_string" /\ arg = <<>>)
           => (raised = NoException /\ ret = <<>>)
    /\ (op = "parse_disk_string" /\ arg = <<>>)
           => (raised = NoException /\ ret = << <<K_volume, <<>> >> >>)

\* the empty string was decoded as a disk string and gave one key
C22_Witness ==
    /\ op = "parse_disk_string"
    /\ arg = <<>>
    /\ raised = NoException
    /\ Len(ret) = 1

\* C23 (root never mapped): in every reachable state of a Redactor, under
\* every policy and after every sequence of operations, no key of the
\* pseudonym map starts with 'root@', and no key is the empty string or None.
C23_RootNeverMapped ==
    \A u \in DOMAIN username_map :
        /\ ~RootAt(u)
        /\ u # <<>>
        /\ u # None

\* a user record whose userid is 'root@pam' was redacted by a Redactor that
\* redacts usernames and holds a pseudonym already
C23_Witness ==
    /\ op = "redact_user_info"
    /\ UsernamesOn
    /\ raised = NoException
    /\ \E i \in 1..Len(arg) : arg[i] = <<K_userid, <<"r", "o", "o", "t", "@", "p", "a", "m">> >>
    /\ DOMAIN username_map # {}

C25_AllReturned ==
    \A c \in DOMAIN callers : callers[c].pc > Len(callers[c].program)

\* the distinct usernames of the callers' programs that get a pseudonym
C25_NewNames ==
    IF UsernamesOn
    THEN {u \in UNION {{callers[c].program[i] :
                            i \in 1..Len(callers[c].program)} :
                         c \in DOMAIN callers} :
             u # None /\ u # <<>> /\ ~RootAt(u)}
    ELSE {}

\* C25 (serialized concurrent use): callers share one Redactor, under a
\* policy that defines the flags, and each redact_username call is one
\* atomic step.  In every interleaving the same username gets one pseudonym
\* and distinct usernames get distinct pseudonyms, the counter never exceeds
\* the number of distinct new usernames, and equals it when every caller has
\* returned from its last call.
C25_SerializedUse ==
    (callers # <<>> /\ FullPolicy)
        => /\ raised = NoException
           /\ \A p \in issued : \A q \in issued : (p[1] = q[1]) <=> (p[2] = q[2])
           /\ username_counter = Cardinality({p[1] : p \in issued})
           /\ username_counter <= Cardinality(C25_NewNames)
           /\ C25_AllReturned => username_counter = Cardinality(C25_NewNames)

\* two callers redacted the same two usernames in opposite orders and have
\* both returned: the counter is 2
C25_Witness ==
    /\ callers # <<>>
    /\ UsernamesOn
    /\ C25_AllReturned
    /\ callers[1].program = <<<<"a", "@", "p", "a", "m", "@", "x">>, <<"c">>>>
    /\ callers[2].program = <<<<"c">>, <<"a", "@", "p", "a", "m", "@", "x">>>>
    /\ username_counter = 2
    /\ Cardinality(issued) = 2

\* the text between 'user' and the first '@' of a stored pseudonym
C26_Number(pseudonym) ==
    LET name == Before(pseudonym, "@")
    IN SubSeq(name, 5, Len(name))

\* C26 (map/counter consistency): in every reachable state of a Redactor the
\* counter equals the number of entries of the pseudonym map, the map values
\* are pairwise distinct, every stored pseudonym starts with 'user', and the
\* numbers of the stored pseudonyms are exactly 1..counter, none missing and
\* none twice.
C26_MapCounterConsistency ==
    /\ username_counter = Cardinality(DOMAIN username_map)
    /\ \A u \in DOMAIN username_map : \A v \in DOMAIN username_map :
          u # v => username_map[u] # username_map[v]
    /\ \A u \in DOMAIN username_map :
          SubSeq(username_map[u], 1, 4) = <<"u", "s", "e", "r">>
    /\ {C26_Number(username_map[u]) : u \in DOMAIN username_map}
          = {C3_Numeral(n) : n \in 1..username_counter}

\* the map holds two entries, user1 and user2, and the counter is 2
C26_Witness ==
    /\ username_counter = 2
    /\ Cardinality(DOMAIN username_map) = 2
    /\ \E u \in DOMAIN username_map : C26_Number(username_map[u]) = <<"2">>

\* the operations that never reach the username rule
C27_Stateless ==
    StatelessRules \cup {"redact_network_interface", "redact_disk_info",
                         "should_redact_anything", "get_redaction_summary"}

\* what C27 says of one step
C27_Step ==
    /\ config' = config
    /\ (username_map' # username_map \/ username_counter' # username_counter)
           => /\ \E c \in C3_Called : C3_NewName(c[1])
              /\ username_counter' = username_counter + 1
              /\ \A u \in DOMAIN username_map :
                    u \in DOMAIN username_map' /\ username_map'[u] = username_map[u]
    /\ op' \in C27_Stateless
           => (username_map' = username_map /\ username_counter' = username_counter)
    /\ (\A c \in C3_Called : ~C3_NewName(c[1]))
           => (username_map' = username_map /\ username_counter' = username_counter)

\* C27 (frame of the pseudonym state): a call changes the pseudonym map and
\* the counter only when it redacts a new, non-empty, non-root username with
\* redact_usernames enabled (the entries already there are kept); a call of
\* redact_username with the flag disabled or with an empty, root@ or mapped
\* username, every MAC, serial, WWN, CPU-flag, email and token rule,
\* redact_network_interface, redact_disk_info, should_redact_anything and
\* get_redaction_summary leave both unchanged; no call changes the policy.
C27_Frame == [][C27_Step]_vars

\* redact_disk_info returned on a Redactor that holds two pseudonyms
C27_Witness ==
    /\ op = "redact_disk_info"
    /\ raised = NoException
    /\ arg # NoneRecord /\ arg # <<>>
    /\ username_counter = 2
    /\ Cardinality(DOMAIN username_map) = 2

\* hardware addresses: not empty, without ','
C28_Addresses ==
    {<<"A", "A", ":", "B", "B", ":", "C", "C", ":", "D", "D", ":", "E", "E", ":", "F", "F">>,
     <<"a", ":", "b">>,
     <<"q">>,
     <<"w", "=", "z">>}

\* the first segment of s is 'model=address' with an address that is not empty
C28_HasAddress(s) ==
    LET first == Before(s, ",")
    IN /\ \E i \in 1..Len(first) : first[i] = "="
       /\ After(first, "=") # <<>>

\* s with the address of its first segment replaced by mac
C28_WithAddress(s, mac) ==
    LET first == Before(s, ",")
    IN Before(first, "=") \o <<"=">> \o mac \o SubSeq(s, Len(first) + 1, Len(s))

\* redact_network_interface(parse_network_string(s))
C28_ParseThenRedact(s) ==
    redact_network_interface(config, username_map, username_counter,
                             parse_network_string(s).val)

\* C28 (MAC non-disclosure through parse-then-redact): with
\* redact_mac_addresses enabled, a network string whose first segment is
\* 'model=address' with a non-empty address gives the same record as every
\* string that differs from it in that address only, both for
\* redact_network_interface(parse_network_string(s)) and for the record
\* collect_data builds from it.
C28_MacNonDisclosure ==
    (/\ op = "collect_data"
     /\ "redact_mac_addresses" \in DOMAIN config
     /\ config["redact_mac_addresses"]
     /\ C28_HasAddress(arg))
        => /\ raised = NoException
           /\ \A mac \in C28_Addresses :
                 LET other == C28_WithAddress(arg, mac)
                 IN /\ ret = collect_network(config, username_map,
                                             username_counter, NET0, other).val
                    /\ C28_ParseThenRedact(arg).exc = NoException
                    /\ C28_ParseThenRedact(arg).val = C28_ParseThenRedact(other).val

\* 'm=a:b,k=v' was collected with MAC redaction enabled: the record holds
\* the model, the placeholder and the option, not 'a:b'
C28_Witness ==
    /\ op = "collect_data"
    /\ "redact_mac_addresses" \in DOMAIN config
    /\ config["redact_mac_addresses"]
    /\ arg = <<"m", "=", "a", ":", "b", ",", "k", "=", "v">>
    /\ Len(ret) = 5
    /\ ret[1] = <<K_model, <<"m">> >>
    /\ ret[2] = <<K_macaddr, <<"X", "X", ":", "X", "X", ":", "X", "X", ":",
                               "X", "X", ":", "X", "X", ":", "X", "X">> >>
    /\ ret[3] = << <<"k">>, <<"v">> >>

\* C29 (serial and WWN share one flag): redact_serial and redact_wwn follow
\* redact_hardware_serials and no other flag, so under every policy that
\* defines it redact_disk_info either replaces both a non-empty 'serial' and
\* a non-empty 'wwn' by 'REDACTED' (flag on) or leaves both unchanged (flag
\* off); no policy redacts one and not the other.
C29_SharedFlag ==
    /\ (op \in {"redact_serial", "redact_wwn"}
        /\ "redact_hardware_serials" \in DOMAIN config)
           => /\ raised = NoException
              /\ ret = IF config["redact_hardware_serials"] /\ arg # None /\ arg # <<>>
                       THEN <<"R", "E", "D", "A", "C", "T", "E", "D">>
                       ELSE arg
    /\ (/\ op = "redact_disk_info"
        /\ "redact_hardware_serials" \in DOMAIN config
        /\ arg # NoneRecord
        /\ DictHas(arg, K_serial) /\ DictHas(arg, K_wwn)
        /\ DictGet(arg, K_serial) \notin {None, <<>>}
        /\ DictGet(arg, K_wwn) \notin {None, <<>>})
           => /\ raised = NoException
              /\ IF config["redact_hardware_serials"]
                 THEN /\ DictGet(ret, K_serial) = <<"R", "E", "D", "A", "C", "T", "E", "D">>
                      /\ DictGet(ret, K_wwn) = <<"R", "E", "D", "A", "C", "T", "E", "D">>
                 ELSE /\ DictGet(ret, K_serial) = DictGet(arg, K_serial)
                      /\ DictGet(ret, K_wwn) = DictGet(arg, K_wwn)

\* a disk record with a serial and a WWN came back unchanged under the
\* policy that enables every flag but redact_hardware_serials
C29_Witness ==
    /\ op = "redact_disk_info"
    /\ FullPolicy
    /\ \A f \in Flags : config[f] <=> f # "redact_hardware_serials"
    /\ arg # NoneRecord
    /\ DictHas(arg, K_serial) /\ DictHas(arg, K_wwn)
    /\ DictGet(arg, K_serial) = <<"S", "1">>
    /\ DictGet(arg, K_wwn) = <<"0", "x", "5">>
    /\ ret = arg

\* the value the first segment gives key k
C30_PrimaryValue(parser, s, k) ==
    LET first == Before(s, ",")
    IN IF parser = "parse_disk_string"
       THEN IF k = K_storage THEN Before(first, ":")
            ELSE IF \E i \in 1..Len(first) : first[i] = ":"
            THEN After(first, ":")
            ELSE first
       ELSE IF k = K_model THEN Before(first, "=") ELSE After(first, "=")

\* C30 (option overrides primary): in both decoders, a key the first segment
\* gives ('storage' or 'volume' for parse_disk_string, 'model' or 'macaddr'
\* for parse_network_string) holds the value of the last option segment with
\* that key when there is one, and the value derived from the first segment
\* only when no option segment uses the key.
C30_OptionOverridesPrimary ==
    (op \in Parsers /\ arg # None)
        => /\ raised = NoException
           /\ \A k \in PrimaryKeys(op, arg) :
                 /\ DictHas(ret, k)
                 /\ DictGet(ret, k) =
                       IF k \in OptionKeys(arg)
                       THEN After(SegmentAt(arg, LastOption(arg, k)), "=")
                       ELSE C30_PrimaryValue(op, arg, k)

\* 's:v:w,storage=y' was decoded as a disk string: 'storage' holds the
\* option's 'y', not the first segment's 's', and 'volume' holds 'v:w'
C30_Witness ==
    /\ op = "parse_disk_string"
    /\ arg = <<"s", ":", "v", ":", "w", ",">> \o K_storage \o <<"=", "y">>
    /\ ret = << <<K_storage, <<"y">> >>, <<K_volume, <<"v", ":", "w">> >> >>

====
